---- MODULE Spec2Model ----
(***************************************************************************)
(* A model of the DSP drafting pipeline of ursa-dsp:                       *)
(*   - DSPProcessor.process_project (core/processor.py): input resolution, *)
(*     fan-out of one process_section task per template section over a     *)
(*     ThreadPoolExecutor, collection with as_completed, sort by index,    *)
(*     persistence of log / HTML / PDF;                                    *)
(*   - DSPGenerator.generate_section and the tenacity-wrapped _call_gemini *)
(*     (core/generator.py): attempts, backoff waits, JSON handling,        *)
(*     sanitisation and the error sentinel.                                *)
(* Texts are sequences of strings.  The text of an LLM answer is a         *)
(* sequence of one-character strings; messages built by the program are    *)
(* sequences of longer tokens.                                             *)
(***************************************************************************)
EXTENDS Integers, Sequences, FiniteSets, TLC

VARIABLES
    summaryFound,       \* the project summary resolves to a file
    templateState,      \* "missing" | "notlist" | "list": templates/dsp_template_structure.json
    template,           \* the loaded template: a sequence of sections (records)
    pc,                 \* position of the orchestrating thread in process_project
    error,              \* the exception process_project raised, or "none"
    outputDir,          \* os.makedirs(output_dir) has run
    full_context,       \* the knowledge-base context resolved at line 72
    fut,                \* per section: state of its future
    attempts,           \* per section: retry_state.attempt_number of its ongoing
                        \* _call_gemini (failed invocations so far; 0 when no call runs)
    sleeps,             \* per section: the waits the ongoing call slept, in order
    lastResponse,       \* per section: what the latest LLM invocation did
    genret,             \* per section: what generate_section returned
    outcome,            \* per section: what the future holds (result or exception)
    progress,           \* progress.advance calls made by the workers
    yielded,            \* the indices of the futures as_completed has yielded, in order
    results,            \* the list of (index, data) pairs
    generated_sections, \* the list handed to json.dump and render_html
    written,            \* the artifacts written so far, in order
    logFile,            \* content of <name>_dsp_log.json
    htmlFile,           \* content of <name>_dsp.html
    pdfFile,            \* content of <name>_dsp.pdf
    returned,           \* the value process_project returned
    llmResponses        \* what an invocation of the LLM can do in this run

\* a direct call of DSPGenerator._sanitize_content
VARIABLES
    sanText,            \* its argument
    sanResult           \* what it returned, None before the call

sanVars == <<sanText, sanResult>>

\* the interactive branch of cli.main: extract_metadata, then run_wizard
VARIABLES
    metaPc,             \* "idle" | "extract" | "wizard" | "done" | "raised"
    metaAttempts,       \* failed invocations of _call_gemini by extract_metadata
    metaLast,           \* what the latest LLM invocation of extract_metadata did
    defaults,           \* the local of cli.main handed to run_wizard
    offered             \* the defaults run_wizard offers, one per field

metaVars == <<metaPc, metaAttempts, metaLast, defaults, offered>>

\* one file, written as text and read with read_file_content (utils/io.py)
VARIABLES
    ioPath,             \* the path: a sequence of name parts, the extension last
    linesep,            \* os.linesep of the platform
    disk,               \* the file at ioPath: None when missing, else its bytes
    ioWritten,          \* the string written to ioPath, None when none was
    ioResult            \* what read_file_content did, None before the call

ioVars == <<ioPath, linesep, disk, ioWritten, ioResult>>

\* the KnowledgeBase (core/rag.py) and its examples directory
VARIABLES
    kbDirExists,        \* os.path.exists(examples_dir)
    kbListing,          \* the files of the directory, in os.listdir order
    examples,           \* self.examples
    kbPc,               \* "new" | "ready" | "raised": the constructor's progress
    kbRetrieved         \* the latest retrieval and its result, None before

kbVars == <<kbDirExists, kbListing, examples, kbPc, kbRetrieved>>

\* the state of the components a run of process_project leaves alone
auxVars == <<sanVars, metaVars, ioVars, kbVars>>

vars == <<summaryFound, templateState, template, pc, error, outputDir,
          full_context, fut, attempts, sleeps, lastResponse, genret, outcome,
          progress, yielded, results, generated_sections, written, logFile, htmlFile,
          pdfFile, returned, llmResponses, auxVars>>

----------------------------------------------------------------------------
(* Bounds of the model *)

MaxSections == 2

MaxMockLen == 3

MaxTextLen == 6

MaxFileLen == 3

MaxFiles == 2

MaxExampleLen == 6

ExtraSections == 1

----------------------------------------------------------------------------
(* Program constants *)

MaxWorkers == 5

StopAfterAttempt == 5

WaitMultiplier == 1

WaitMin == 4

WaitMax == 60

ExpBase == 2

None == [kind |-> "None"]

Max(a, b) == IF a >= b THEN a ELSE b

Min(a, b) == IF a <= b THEN a ELSE b

RECURSIVE Pow(_, _)
Pow(b, e) == IF e = 0 THEN 1 ELSE b * Pow(b, e - 1)

----------------------------------------------------------------------------
(* tenacity: wait_exponential(multiplier=1, min=4, max=60).  The wait slept *)
(* after failed attempt number n is                                        *)
(*   max(max(0, min), min(multiplier * 2^(n-1), max)).                     *)

WaitExponentialNoFloor(attempt_number) ==
    Min(WaitMultiplier * Pow(ExpBase, attempt_number - 1), WaitMax)

WaitExponential(attempt_number) ==
    Max(Max(0, WaitMin),
        Min(WaitMultiplier * Pow(ExpBase, attempt_number - 1), WaitMax))

----------------------------------------------------------------------------
(* DSPGenerator._sanitize_content on a text (a sequence of characters).    *)

\* the backquote character (written as a word: the lexer takes no backquote)
BQ == "bq"

Fence == <<BQ, BQ, BQ>>

Markdown == <<"m", "a", "r", "k", "d", "o", "w", "n">>

Whitespace == {" ", "\n", "\t"}

\* text[p..] starts with pat
StartsAt(text, p, pat) ==
    /\ p + Len(pat) - 1 <= Len(text)
    /\ \A k \in 1..Len(pat) : text[p + k - 1] = pat[k]

\* re.sub of three backquotes and an optional "markdown" by "": leftmost,
\* non-overlapping, greedy
RECURSIVE SubFence(_, _)
SubFence(text, p) ==
    IF p > Len(text) THEN <<>>
    ELSE IF StartsAt(text, p, Fence)
         THEN IF StartsAt(text, p + 3, Markdown)
              THEN SubFence(text, p + 3 + Len(Markdown))
              ELSE SubFence(text, p + 3)
         ELSE <<text[p]>> \o SubFence(text, p + 1)

\* text.replace(three backquotes, "")
RECURSIVE ReplaceFence(_, _)
ReplaceFence(text, p) ==
    IF p > Len(text) THEN <<>>
    ELSE IF StartsAt(text, p, Fence)
         THEN ReplaceFence(text, p + 3)
         ELSE <<text[p]>> \o ReplaceFence(text, p + 1)

\* the position of the first ">" at or after p, or 0
RECURSIVE FirstClose(_, _)
FirstClose(text, p) ==
    IF p > Len(text) THEN 0
    ELSE IF text[p] = ">" THEN p ELSE FirstClose(text, p + 1)

\* re.sub(r"<[^>]+>", "", text): "<", one or more characters other than
\* ">", then ">"
RECURSIVE SubTags(_, _)
SubTags(text, p) ==
    IF p > Len(text) THEN <<>>
    ELSE IF text[p] = "<" /\ FirstClose(text, p + 1) >= p + 2
         THEN SubTags(text, FirstClose(text, p + 1) + 1)
         ELSE <<text[p]>> \o SubTags(text, p + 1)

RECURSIVE LStrip(_)
LStrip(text) ==
    IF text # <<>> /\ Head(text) \in Whitespace THEN LStrip(Tail(text)) ELSE text

RECURSIVE RStrip(_)
RStrip(text) ==
    IF text # <<>> /\ text[Len(text)] \in Whitespace
    THEN RStrip(SubSeq(text, 1, Len(text) - 1))
    ELSE text

Strip(text) == RStrip(LStrip(text))

SanitizeDropBrackets(text) ==
    Strip(SelectSeq(ReplaceFence(SubFence(text, 1), 1),
                    LAMBDA c : c \notin {"<", ">"}))

SanitizeContent(text) ==
    Strip(SubTags(ReplaceFence(SubFence(text, 1), 1), 1))

----------------------------------------------------------------------------
(* results.sort(key=lambda x: x[0]): a stable sort on the index.           *)

RECURSIVE InsertByIndex(_, _)
InsertByIndex(sorted, x) ==
    IF sorted = <<>> THEN <<x>>
    ELSE IF x[1] < Head(sorted)[1]
         THEN <<x>> \o sorted
         ELSE <<Head(sorted)>> \o InsertByIndex(Tail(sorted), x)

RECURSIVE SortByIndexFrom(_, _)
SortByIndexFrom(rs, k) ==
    IF k = 0 THEN <<>>
    ELSE InsertByIndex(SortByIndexFrom(rs, k - 1), rs[k])

NoSort(rs) == rs

SortByIndex(rs) == SortByIndexFrom(rs, Len(rs))

DataOfHead(rs) == [k \in 1..Len(rs) |-> rs[1][2]]

\* generated_sections = [data for _, data in results]
DataOf(rs) == [k \in 1..Len(rs) |-> rs[k][2]]


----------------------------------------------------------------------------
(* Inputs *)

Titles == {"T1", "T2"}

\* template entries: complete ones, one without "body", one without "title"
SectionChoices ==
    [title : Titles, body : {"B"}] \cup {[title |-> "T1"], [body |-> "B"]}

TemplatesOf(choices, lo, hi) == UNION {[1..n -> choices] : n \in lo..hi}

\* templates of n sections: complete entries, the last one with or without
\* its title
WideTemplates(n) ==
    {[k \in 1..n |-> IF k < n THEN [title |-> "T1", body |-> "B"] ELSE last] :
        last \in {[title |-> "T2", body |-> "B"], [body |-> "B"]}}

\* the texts an LLM answer may carry in "section_content"
Plain == <<"H", "i">>

Fenced ==
    Fence \o Markdown \o <<"\n", "<", "p", ">", "O", "k", "<", "/", "p", ">", "\n">> \o Fence

RawContents == {Plain, Fenced}

\* what one LLM invocation can do
Responses ==
    {[kind |-> k, raw |-> <<>>] :
        k \in {"APIError", "Empty", "Malformed", "NonObject", "NoField", "NonString"}}
    \cup {[kind |-> "Content", raw |-> r] : r \in RawContents}

\* the characters of the texts the model enumerates
Chars == {BQ, "<", ">", "a", " "}

TextsUpTo(n) == UNION {[1..k -> Chars] : k \in 0..n}

\* a mocked LLM: every invocation returns {"section_content": text}
MockedResponses(n) == {{[kind |-> "Content", raw |-> t]} : t \in TextsUpTo(n)}

\* an LLM that always answers with a well-formed object
WideResponses == {[kind |-> "Content", raw |-> Plain]}

Indices == 1..Len(template)

----------------------------------------------------------------------------
(* Texts and values built by the program *)

\* str(e) of the exceptions generate_section can catch
ExcText(e) ==
    CASE e[1] = "RetryError" -> <<"RetryError[<Future state=finished raised ", e[2], ">]">>
      [] e[1] = "JSONDecodeError" -> <<"Expecting value: line 1 column 1 (char 0)">>
      [] e[1] = "AttributeError" -> <<"'list' object has no attribute 'get'">>
      [] e[1] = "TypeError" -> <<"expected string or bytes-like object">>
      [] OTHER -> <<e[1]>>

ErrorMarker == "[[ERROR:"

SentinelNoMarker(e) == <<" Generation failed: ">> \o ExcText(e)

\* f"[[ERROR: Generation failed after retries: {e}]]"
Sentinel(e) ==
    <<ErrorMarker, " Generation failed after retries: ">> \o ExcText(e) \o <<"]]">>

GenerationError == <<"[[GENERATION ERROR]]">>

\* the prompt generate_section builds from its four arguments
Prompt(section_title, section_body, project_summary, context) ==
    [section_title |-> section_title, section_body |-> section_body,
     project_summary |-> project_summary, full_context |-> context]

PromptWithoutContext(i) == Prompt(template[i].title, template[i].body, "Summary", <<>>)

\* the prompt generate_section builds for section i
PromptOf(i) == Prompt(template[i].title, template[i].body, "Summary", full_context)


Running == {i \in Indices : fut[i] = "running"}

Collected == {yielded[k] : k \in 1..Len(yielded)}


----------------------------------------------------------------------------
(* utils/io.py: read_file_content and the readers it dispatches to.  A     *)
(* file is the sequence of its bytes; the characters the model follows     *)
(* are a letter, line feed and carriage return, one byte each in UTF-8,    *)
(* and the byte 0xFF, which no UTF-8 text holds.                           *)

IoChars == {"a", "LF", "CR"}

InvalidByte == "xFF"

IoTexts(n) == UNION {[1..k -> IoChars] : k \in 0..n}

\* path.endswith(ext)
EndsWith(path, ext) == path # <<>> /\ path[Len(path)] = ext

Paths == {<<"f", ".txt">>, <<"f", ".md">>, <<"f", ".docx">>, <<"f", ".pdf">>,
          <<"f", ".bin">>}

\* writing a string as text: every line feed becomes os.linesep, then UTF-8
RECURSIVE WriteText(_, _)
WriteText(text, sep) ==
    IF text = <<>> THEN <<>>
    ELSE IF Head(text) = "LF" THEN sep \o WriteText(Tail(text), sep)
    ELSE <<Head(text)>> \o WriteText(Tail(text), sep)

\* bytes.decode("utf-8") raises UnicodeDecodeError
Undecodable(bytes) == \E p \in 1..Len(bytes) : bytes[p] = InvalidByte

NoNewlineTranslation(bytes) == bytes

\* reading in text mode with newline=None: "\r\n" and "\r" become "\n"
UniversalNewlines(bytes) ==
    LET kept == SelectSeq([p \in 1..Len(bytes) |-> p],
                          LAMBDA p : ~(bytes[p] = "LF" /\ p > 1 /\ bytes[p - 1] = "CR"))
    IN  [k \in 1..Len(kept) |->
            IF bytes[kept[k]] = "CR" THEN "LF" ELSE bytes[kept[k]]]

Returns(text) == [kind |-> "return", text |-> text]

Raises(exc) == [kind |-> "raise", exc |-> exc]

\* read_docx_text and read_pdf_text: the paragraphs (pages) joined by "\n";
\* any exception of the parser is logged and "" returned.  The documents of
\* the model hold their paragraphs as lines.
ReadDocument(file) ==
    IF file = None \/ Undecodable(file.bytes)
    THEN Returns(<<>>)
    ELSE Returns(file.bytes)

\* open(path, "r", encoding="utf-8") and f.read(), lines 45-46
ReadText(file) ==
    IF file = None THEN Raises("FileNotFoundError")
    ELSE IF Undecodable(file.bytes) THEN Raises("UnicodeDecodeError")
    ELSE Returns(UniversalNewlines(file.bytes))

ReadFileContent(path, file) ==
    IF EndsWith(path, ".docx") \/ EndsWith(path, ".pdf") THEN ReadDocument(file)
    ELSE IF EndsWith(path, ".md") \/ EndsWith(path, ".txt") THEN ReadText(file)
    ELSE Returns(<<>>)

----------------------------------------------------------------------------
(* core/rag.py: the KnowledgeBase.  A file of the examples directory is a  *)
(* record of its name (a sequence of name parts, the extension last) and   *)
(* its content on disk.                                                    *)

KbNames == {<<"ex1", ".txt">>, <<"ex2", ".md">>, <<"DSP_", "Template", ".txt">>,
            <<".", "notes", ".txt">>, <<"doc", ".docx">>, <<"data", ".bin">>}

KbContents == {<<>>, <<"a">>, <<"a", "CR">>, <<InvalidByte>>}

KbFiles == {[name |-> n, file |-> [bytes |-> b]] : n \in KbNames, b \in KbContents}

\* the directory listings of up to n files, no name twice
Listings(n) ==
    UNION {{l \in [1..k -> KbFiles] :
              \A i \in 1..k : \A j \in 1..k : i # j => l[i].name # l[j].name} :
           k \in 0..n}

\* the examples directory of the runs with many sections
WideListings ==
    LET E1 == [name |-> <<"ex1", ".txt">>, file |-> [bytes |-> <<"a">>]]
        E2 == [name |-> <<"ex2", ".md">>, file |-> [bytes |-> <<"a", "CR">>]]
    IN  {<<>>, <<E1, E2>>, <<E2, E1>>}

TemplateNever(filename) == FALSE

\* "Template" in filename
ContainsTemplate(filename) == \E p \in 1..Len(filename) : filename[p] = "Template"

\* the loop of load_examples from the k-th file on; acc is self.examples
RECURSIVE LoadFrom(_, _, _)
LoadFrom(listing, k, acc) ==
    IF k > Len(listing) THEN [examples |-> acc, raised |-> "none"]
    ELSE IF ContainsTemplate(listing[k].name) THEN LoadFrom(listing, k + 1, acc)
    ELSE LET content == ReadFileContent(listing[k].name, listing[k].file)
         IN  IF content.kind = "raise"
             THEN [examples |-> acc, raised |-> content.exc]
             ELSE IF content.text # <<>>
             THEN LoadFrom(listing, k + 1, Append(acc, content.text))
             ELSE LoadFrom(listing, k + 1, acc)

LoadExamples(listing) == LoadFrom(listing, 1, <<>>)

Upper == {"A"}

Lower == {"a"}

SegmentCap == 2000

ExampleSeparator == <<"LF", "--- EXAMPLE ---", "LF">>

\* text.find(pat) + 1: the first position where pat starts, 0 when none
Find(text, pat) ==
    IF \E p \in 1..(Len(text) + 1) : StartsAt(text, p, pat)
    THEN CHOOSE p \in 1..(Len(text) + 1) :
            /\ StartsAt(text, p, pat)
            /\ \A q \in 1..(p - 1) : ~StartsAt(text, q, pat)
    ELSE 0

BlankLineAt(text, p) ==
    /\ p + 1 <= Len(text)
    /\ text[p] = "LF" /\ text[p + 1] = "LF"

\* re.search(r"\n\n[A-Z][a-z]+", text) matches at position p
NextSectionAt(text, p) ==
    /\ p + 3 <= Len(text)
    /\ text[p] = "LF" /\ text[p + 1] = "LF"
    /\ text[p + 2] \in Upper /\ text[p + 3] \in Lower

\* the segment get_relevant_examples takes from an example that holds the title
Segment(example, section_title) ==
    LET start == Find(example, section_title)
        after == start + Len(section_title)
        rest == SubSeq(example, after, Len(example))
    IN  IF \E p \in 1..Len(rest) : NextSectionAt(rest, p)
        THEN LET m == CHOOSE p \in 1..Len(rest) :
                          /\ NextSectionAt(rest, p)
                          /\ \A q \in 1..(p - 1) : ~NextSectionAt(rest, q)
             IN  SubSeq(example, start, after + m - 2)
        ELSE SubSeq(example, start, Min(start + SegmentCap - 1, Len(example)))

RECURSIVE Join(_, _)
Join(segments, separator) ==
    IF segments = <<>> THEN <<>>
    ELSE IF Len(segments) = 1 THEN segments[1]
    ELSE segments[1] \o separator \o Join(Tail(segments), separator)

RECURSIVE RelevantSegments(_, _, _)
RelevantSegments(exs, k, section_title) ==
    IF k > Len(exs) THEN <<>>
    ELSE IF Find(exs[k], section_title) # 0
    THEN <<Segment(exs[k], section_title)>> \o RelevantSegments(exs, k + 1, section_title)
    ELSE RelevantSegments(exs, k + 1, section_title)

GetRelevantExamples(section_title) ==
    Join(RelevantSegments(examples, 1, section_title), ExampleSeparator)

\* the labels get_full_context puts around the k-th loaded text
StartLabel(k) == <<"--- START EXAMPLE DSP:", ToString(k), "---", "LF">>

EndLabel(k) == <<"LF", "--- END EXAMPLE DSP:", ToString(k), "---", "LF">>

RECURSIVE FullContextFrom(_)
FullContextFrom(k) ==
    IF k > Len(examples) THEN <<>>
    ELSE StartLabel(k) \o examples[k] \o EndLabel(k) \o FullContextFrom(k + 1)

\* KnowledgeBase.get_full_context()
GetFullContext == FullContextFrom(1)

----------------------------------------------------------------------------
(* Initial states: process_project has been called and has done nothing.   *)

\* full_context before line 72 has run
Unresolved == <<"unresolved">>

InitState ==
    /\ pc = "start"
    /\ error = "none"
    /\ outputDir = FALSE
    /\ full_context = Unresolved
    /\ fut = [i \in Indices |-> "unsubmitted"]
    /\ attempts = [i \in Indices |-> 0]
    /\ sleeps = [i \in Indices |-> <<>>]
    /\ lastResponse = [i \in Indices |-> "none"]
    /\ genret = [i \in Indices |-> None]
    /\ outcome = [i \in Indices |-> None]
    /\ progress = 0
    /\ yielded = <<>>
    /\ results = <<>>
    /\ generated_sections = <<>>
    /\ written = <<>>
    /\ logFile = None
    /\ htmlFile = None
    /\ pdfFile = None
    /\ returned = "none"

\* no direct call of _sanitize_content is under way
SanIdle == sanText = <<>> /\ sanResult = None

\* a JSON value as json.loads returns it: a dict with its items, or another
\* value with its truth value
EmptyItems == [k \in {} |-> "X"]

Dict(items) == [type |-> "dict", items |-> items, truthy |-> DOMAIN items # {}]

NonDict(truthy) == [type |-> "other", items |-> EmptyItems, truthy |-> truthy]

\* defaults = None
NoDefaults == [type |-> "none", items |-> EmptyItems, truthy |-> FALSE]

\* cli.main is not in its interactive branch
MetaIdle ==
    /\ metaPc = "idle"
    /\ metaAttempts = 0
    /\ metaLast = "none"
    /\ defaults = NoDefaults
    /\ offered = None

\* no file is written or read
IoIdle ==
    /\ ioPath = <<>>
    /\ linesep = <<"LF">>
    /\ disk = None
    /\ ioWritten = None
    /\ ioResult = None

\* no KnowledgeBase is being constructed
KbIdle ==
    /\ kbDirExists = FALSE
    /\ kbListing = <<>>
    /\ examples = <<>>
    /\ kbPc = "idle"
    /\ kbRetrieved = None

\* DSPProcessor.__init__ has constructed its KnowledgeBase on a directory
\* that holds one of the given listings
KbConstructed(listings) ==
    /\ kbDirExists = TRUE
    /\ kbListing \in listings
    /\ LoadExamples(kbListing).raised = "none"
    /\ examples = LoadExamples(kbListing).examples
    /\ kbPc = "ready"
    /\ kbRetrieved = None

AuxIdle == SanIdle /\ MetaIdle /\ IoIdle

\* process_project is not called
PipeIdle ==
    /\ summaryFound = FALSE
    /\ templateState = "missing"
    /\ template = <<>>
    /\ llmResponses = {}
    /\ InitState

Init ==
    /\ summaryFound \in BOOLEAN
    /\ templateState \in {"missing", "notlist", "list"}
    /\ template \in TemplatesOf(SectionChoices, 0, MaxSections)
    /\ templateState # "list" => template = <<>>
    /\ llmResponses = Responses
    /\ InitState
    /\ AuxIdle
    /\ KbConstructed({<<>>})

\* templates with more sections than the pool has workers
InitWide ==
    /\ summaryFound = TRUE
    /\ templateState = "list"
    /\ template \in UNION {WideTemplates(n) :
                            n \in (MaxWorkers + 1)..(MaxWorkers + ExtraSections)}
    /\ llmResponses = WideResponses
    /\ InitState
    /\ AuxIdle
    /\ KbConstructed(WideListings)

\* one section, the LLM mocked to return one fixed answer
InitText ==
    /\ summaryFound = TRUE
    /\ templateState = "list"
    /\ template \in TemplatesOf({[title |-> "T1", body |-> "B"], [body |-> "B"]}, 1, 1)
    /\ llmResponses \in MockedResponses(MaxMockLen)
    /\ InitState
    /\ AuxIdle
    /\ KbConstructed({<<>>})

\* _sanitize_content is about to be called on some text
InitSanitize ==
    /\ sanText \in TextsUpTo(MaxTextLen)
    /\ sanResult = None
    /\ PipeIdle
    /\ MetaIdle
    /\ IoIdle
    /\ KbIdle

----------------------------------------------------------------------------
(* process_project, lines 69-83: resolve the inputs, create the output     *)
(* directory.                                                              *)

SummaryAlwaysResolves == TRUE

\* get_project_summary returns instead of raising FileNotFoundError
SummaryResolves == summaryFound

Raise(e) ==
    /\ pc' = "raised"
    /\ error' = e

Resolve ==
    /\ pc = "start"
    /\ IF ~SummaryResolves
       THEN /\ Raise("FileNotFoundError")
            /\ UNCHANGED <<full_context, outputDir>>
       ELSE IF templateState = "missing"
       THEN /\ Raise("FileNotFoundError")
            /\ UNCHANGED <<full_context, outputDir>>
       ELSE IF templateState = "notlist"
       THEN /\ Raise("ValueError")
            /\ UNCHANGED <<full_context, outputDir>>
       ELSE /\ full_context' = GetFullContext
            /\ outputDir' = TRUE
            /\ pc' = IF Len(template) = 0 THEN "collect" ELSE "submit"
            /\ error' = error
    /\ UNCHANGED <<summaryFound, templateState, template, fut, attempts,
                   sleeps, lastResponse, genret, outcome, progress, yielded,
                   results, generated_sections, written, logFile, htmlFile,
                   pdfFile, returned, llmResponses>>

----------------------------------------------------------------------------
(* lines 104-116: executor.submit for each section, in template order.     *)

Submit(i) ==
    /\ pc = "submit"
    /\ fut[i] = "unsubmitted"
    /\ \A j \in 1..(i - 1) : fut[j] # "unsubmitted"
    /\ fut' = [fut EXCEPT ![i] = "queued"]
    /\ pc' = IF i = Len(template) THEN "collect" ELSE "submit"
    /\ UNCHANGED <<summaryFound, templateState, template, error, outputDir,
                   full_context, attempts, sleeps, lastResponse, genret,
                   outcome, progress, yielded, results, generated_sections,
                   written, logFile, htmlFile, pdfFile, returned,
                   llmResponses>>

----------------------------------------------------------------------------
(* A pool thread takes the oldest queued work item and runs                *)
(* process_section up to the call of generate_section (lines 53-59).       *)

PoolUnbounded == TRUE

\* ThreadPoolExecutor(max_workers=5): a thread is free to take a work item
PoolHasFreeWorker == Cardinality(Running) < MaxWorkers

StartTask(i) ==
    /\ fut[i] = "queued"
    /\ \A j \in 1..(i - 1) : fut[j] # "queued"
    /\ PoolHasFreeWorker
    /\ IF "title" \in DOMAIN template[i] /\ "body" \in DOMAIN template[i]
       THEN /\ fut' = [fut EXCEPT ![i] = "running"]
            /\ UNCHANGED outcome
       ELSE /\ fut' = [fut EXCEPT ![i] = "finished"]
            /\ outcome' = [outcome EXCEPT ![i] =
                              [kind |-> "exception", exc |-> <<"KeyError">>]]
    /\ UNCHANGED <<summaryFound, templateState, template, pc, error,
                   outputDir, full_context, attempts, sleeps, lastResponse,
                   genret, progress, yielded, results, generated_sections,
                   written, logFile, htmlFile, pdfFile, returned,
                   llmResponses>>


----------------------------------------------------------------------------
(* One invocation of the LLM by _call_gemini under tenacity's retry loop,  *)
(* and, when the loop ends, the rest of generate_section and               *)
(* process_section.                                                        *)

\* the attempt raises: generate_content raised, or response.text is empty
AttemptRaises(r) == r.kind \in {"APIError", "Empty"}

\* the exception the attempt raises
AttemptException(r) == IF r.kind = "Empty" THEN "ValueError" ELSE r.kind

StopAfterOneMore(attempt_number) == attempt_number >= StopAfterAttempt + 1

\* stop_after_attempt(5)
ShouldStop(attempt_number) == attempt_number >= StopAfterAttempt

GenerateFromTextStrict(r) ==
    CASE r.kind = "Malformed" -> Sentinel(<<"JSONDecodeError">>)
      [] r.kind = "NonObject" -> Sentinel(<<"AttributeError">>)
      [] r.kind = "NonString" -> Sentinel(<<"TypeError">>)
      [] r.kind = "NoField" -> Sentinel(<<"KeyError">>)
      [] r.kind = "Content" -> SanitizeContent(r.raw)

\* generate_section, lines 106-112, on the text _call_gemini returned
GenerateFromText(r) ==
    CASE r.kind = "Malformed" -> Sentinel(<<"JSONDecodeError">>)
      [] r.kind = "NonObject" -> Sentinel(<<"AttributeError">>)
      [] r.kind = "NonString" -> Sentinel(<<"TypeError">>)
      [] r.kind = "NoField" -> SanitizeContent(<<>>)
      [] r.kind = "Content" -> SanitizeContent(r.raw)

\* generate_section returns (prompt, content); process_section advances the
\* progress bar and returns {"title": title, "content": content}
FinishSection(i, content) ==
    /\ genret' = [genret EXCEPT ![i] =
                     [kind |-> "return", prompt |-> PromptOf(i), content |-> content]]
    /\ progress' = progress + 1
    /\ outcome' = [outcome EXCEPT ![i] =
                      [kind |-> "result",
                       data |-> [title |-> template[i].title, content |-> content]]]
    /\ fut' = [fut EXCEPT ![i] = "finished"]
    /\ attempts' = [attempts EXCEPT ![i] = 0]
    /\ sleeps' = [sleeps EXCEPT ![i] = <<>>]

Attempt(i, r) ==
    /\ fut[i] = "running"
    /\ lastResponse' = [lastResponse EXCEPT ![i] = r.kind]
    /\ IF AttemptRaises(r)
       THEN IF ShouldStop(attempts[i] + 1)
            THEN \* RetryError, caught by generate_section
                 FinishSection(i, Sentinel(<<"RetryError", AttemptException(r)>>))
            ELSE /\ attempts' = [attempts EXCEPT ![i] = @ + 1]
                 /\ sleeps' = [sleeps EXCEPT ![i] =
                                  Append(@, WaitExponential(attempts[i] + 1))]
                 /\ UNCHANGED <<genret, progress, outcome, fut>>
       ELSE FinishSection(i, GenerateFromText(r))
    /\ UNCHANGED <<summaryFound, templateState, template, pc, error,
                   outputDir, full_context, yielded, results,
                   generated_sections, written, logFile, htmlFile, pdfFile,
                   returned, llmResponses>>

----------------------------------------------------------------------------
(* lines 118-136: the as_completed loop of the orchestrating thread.       *)

Placeholder(i) == [title |-> template[i].title, content |-> GenerationError]

Collect(i) ==
    /\ pc = "collect"
    /\ fut[i] = "finished"
    /\ i \notin Collected
    /\ yielded' = Append(yielded, i)
    /\ IF outcome[i].kind = "result"
       THEN /\ results' = Append(results, <<i, outcome[i].data>>)
            /\ UNCHANGED <<pc, error>>
       ELSE IF "title" \in DOMAIN template[i]
       THEN /\ results' = Append(results, <<i, Placeholder(i)>>)
            /\ UNCHANGED <<pc, error>>
       ELSE \* template[index]["title"] raises inside the except block
            /\ pc' = "unwind"
            /\ error' = "KeyError"
            /\ UNCHANGED results
    /\ UNCHANGED <<summaryFound, templateState, template, outputDir,
                   full_context, fut, attempts, sleeps, lastResponse, genret,
                   outcome, progress, generated_sections, written, logFile,
                   htmlFile, pdfFile, returned, llmResponses>>

AsCompletedAfterFirst == Len(results) >= 1 \/ Indices = {}

\* as_completed has yielded every future
AsCompletedExhausted == \A i \in Indices : i \in Collected

\* Executor.__exit__: shutdown(wait=True)
AllTasksDone == \A i \in Indices : fut[i] = "finished"

\* the loop ends and both with-blocks are left
LeavePool ==
    /\ pc = "collect"
    /\ AsCompletedExhausted
    /\ pc' = "sort"
    /\ UNCHANGED <<summaryFound, templateState, template, error, outputDir,
                   full_context, fut, attempts, sleeps, lastResponse, genret,
                   outcome, progress, yielded, results, generated_sections,
                   written, logFile, htmlFile, pdfFile, returned,
                   llmResponses>>

\* the exception of the except block leaves the with-blocks: the executor
\* waits for every work item, then process_project raises
Unwind ==
    /\ pc = "unwind"
    /\ AllTasksDone
    /\ pc' = "raised"
    /\ UNCHANGED <<summaryFound, templateState, template, error, outputDir,
                   full_context, fut, attempts, sleeps, lastResponse, genret,
                   outcome, progress, yielded, results, generated_sections,
                   written, logFile, htmlFile, pdfFile, returned,
                   llmResponses>>

----------------------------------------------------------------------------
(* lines 138-155: sort, persist, return.                                   *)

Sort ==
    /\ pc = "sort"
    /\ results' = SortByIndex(results)
    /\ generated_sections' = DataOf(SortByIndex(results))
    /\ pc' = "log"
    /\ UNCHANGED <<summaryFound, templateState, template, error, outputDir,
                   full_context, fut, attempts, sleeps, lastResponse, genret,
                   outcome, progress, yielded, written, logFile, htmlFile,
                   pdfFile, returned, llmResponses>>

WriteLog ==
    /\ pc = "log"
    /\ logFile' = [kind |-> "json", sections |-> generated_sections]
    /\ written' = Append(written, "log")
    /\ pc' = "html"
    /\ UNCHANGED <<summaryFound, templateState, template, error, outputDir,
                   full_context, fut, attempts, sleeps, lastResponse, genret,
                   outcome, progress, yielded, results, generated_sections,
                   htmlFile, pdfFile, returned, llmResponses>>

Reverse(seq) == [k \in 1..Len(seq) |-> seq[Len(seq) + 1 - k]]

RenderHtmlReversed(project_name, sections) ==
    [kind |-> "html", project_name |-> project_name, sections |-> Reverse(sections)]

\* ReportRenderer.render_html: the sections are handed to the template in
\* the order given
RenderHtml(project_name, sections) ==
    [kind |-> "html", project_name |-> project_name, sections |-> sections]

WriteHtml ==
    /\ pc = "html"
    /\ htmlFile' = RenderHtml("project", generated_sections)
    /\ written' = Append(written, "html")
    /\ pc' = "pdf"
    /\ UNCHANGED <<summaryFound, templateState, template, error, outputDir,
                   full_context, fut, attempts, sleeps, lastResponse, genret,
                   outcome, progress, yielded, results, generated_sections,
                   logFile, pdfFile, returned, llmResponses>>

GeneratePdfRaising(ok) ==
    /\ pc = "pdf"
    /\ IF ok
       THEN /\ pdfFile' = [kind |-> "pdf", source |-> htmlFile]
            /\ written' = Append(written, "pdf")
            /\ returned' = "pdf_path"
            /\ pc' = "done"
            /\ error' = error
       ELSE /\ Raise("PdfError")
            /\ UNCHANGED <<pdfFile, written, returned>>
    /\ UNCHANGED <<summaryFound, templateState, template, outputDir,
                   full_context, fut, attempts, sleeps, lastResponse, genret,
                   outcome, progress, yielded, results, generated_sections,
                   logFile, htmlFile, llmResponses>>

\* ReportRenderer.generate_pdf on html_content; ok = write_pdf did not raise
GeneratePdf(ok) ==
    /\ pc = "pdf"
    /\ IF ok
       THEN /\ pdfFile' = [kind |-> "pdf", source |-> htmlFile]
            /\ written' = Append(written, "pdf")
       ELSE UNCHANGED <<pdfFile, written>>
    /\ returned' = "pdf_path"
    /\ pc' = "done"
    /\ UNCHANGED <<summaryFound, templateState, template, error, outputDir,
                   full_context, fut, attempts, sleeps, lastResponse, genret,
                   outcome, progress, yielded, results, generated_sections,
                   logFile, htmlFile, llmResponses>>

----------------------------------------------------------------------------

Next ==
    \/ Resolve /\ UNCHANGED auxVars
    \/ \E i \in Indices : Submit(i) /\ UNCHANGED auxVars
    \/ \E i \in Indices : StartTask(i) /\ UNCHANGED auxVars
    \/ \E i \in Indices : \E r \in llmResponses : Attempt(i, r) /\ UNCHANGED auxVars
    \/ \E i \in Indices : Collect(i) /\ UNCHANGED auxVars
    \/ LeavePool /\ UNCHANGED auxVars
    \/ Unwind /\ UNCHANGED auxVars
    \/ Sort /\ UNCHANGED auxVars
    \/ WriteLog /\ UNCHANGED auxVars
    \/ WriteHtml /\ UNCHANGED auxVars
    \/ \E ok \in BOOLEAN : GeneratePdf(ok) /\ UNCHANGED auxVars

Spec == Init /\ [][Next]_vars

SpecWide == InitWide /\ [][Next]_vars

SpecText == InitText /\ [][Next]_vars

\* every invocation of the LLM returns or raises, the pool runs its queued
\* tasks and the orchestrating thread is scheduled: a step that can be taken
\* is eventually taken
SpecFair == Init /\ [][Next]_vars /\ WF_vars(Next)

----------------------------------------------------------------------------
(* A direct call of _sanitize_content (generator.py, lines 46-56).         *)

pipeVars == <<summaryFound, templateState, template, pc, error, outputDir,
              full_context, fut, attempts, sleeps, lastResponse, genret, outcome,
              progress, yielded, results, generated_sections, written, logFile,
              htmlFile, pdfFile, returned, llmResponses>>

CallSanitizeContent ==
    /\ sanResult = None
    /\ sanResult' = [kind |-> "str", text |-> SanitizeContent(sanText)]
    /\ UNCHANGED <<sanText, pipeVars, metaVars, ioVars, kbVars>>

NextSanitize == CallSanitizeContent

SpecSanitize == InitSanitize /\ [][NextSanitize]_vars

----------------------------------------------------------------------------
(* cli.main, interactive branch (cli.py, lines 192-209): extract_metadata  *)
(* (generator.py, lines 118-154) fills defaults, run_wizard (cli.py, lines *)
(* 28-91) offers one default per field.                                    *)

\* the fields of ProjectMetadata the model follows
MetaKeys == {"project_name", "pi_name", "department"}

\* the fallback run_wizard passes to get_def for each field
Fallback(key) ==
    CASE key = "project_name" -> "My Research Project"
      [] key = "pi_name" -> "Unknown PI"
      [] key = "department" -> "Research Computing"

\* what an invocation of the LLM can do for extract_metadata
MetaResponses ==
    {[kind |-> "APIError"], [kind |-> "Empty"], [kind |-> "Malformed"]}
    \cup {[kind |-> "NonObject", truthy |-> b] : b \in BOOLEAN}
    \cup {[kind |-> "Object", items |-> f] :
             f \in UNION {[K -> {"X"}] : K \in SUBSET MetaKeys}}

\* json.loads on a well-formed response text
JsonLoads(r) == IF r.kind = "Object" THEN Dict(r.items) ELSE NonDict(r.truthy)

\* --interactive with or without --summary
InitMeta ==
    /\ metaPc \in {"extract", "wizard"}
    /\ metaAttempts = 0
    /\ metaLast = "none"
    /\ defaults = NoDefaults
    /\ offered = None
    /\ PipeIdle
    /\ SanIdle
    /\ IoIdle
    /\ KbIdle

\* one invocation of the LLM by extract_metadata; every exception ends in
\* the except block of line 152, which returns {}
ExtractMetadata(r) ==
    /\ metaPc = "extract"
    /\ metaLast' = r.kind
    /\ IF AttemptRaises(r)
       THEN /\ metaAttempts' = metaAttempts + 1
            /\ IF ShouldStop(metaAttempts + 1)
               THEN defaults' = Dict(EmptyItems) /\ metaPc' = "wizard"
               ELSE UNCHANGED <<defaults, metaPc>>
       ELSE /\ metaAttempts' = metaAttempts
            /\ defaults' = IF r.kind = "Malformed" THEN Dict(EmptyItems) ELSE JsonLoads(r)
            /\ metaPc' = "wizard"
    /\ UNCHANGED <<offered, pipeVars, sanVars, ioVars, kbVars>>

\* defaults.get on a value that is not a dict: AttributeError
GetDefRaises == defaults.truthy /\ defaults.type # "dict"

GetDefBlank(key, fallback) ==
    IF defaults.truthy /\ key \in DOMAIN defaults.items
    THEN defaults.items[key]
    ELSE ""

\* get_def: defaults.get(key, fallback) if defaults else fallback
GetDef(key, fallback) ==
    IF defaults.truthy
    THEN IF key \in DOMAIN defaults.items THEN defaults.items[key] ELSE fallback
    ELSE fallback

\* run_wizard evaluates get_def for every field; cli.main does not catch
\* what it raises
RunWizard ==
    /\ metaPc = "wizard"
    /\ IF GetDefRaises
       THEN metaPc' = "raised" /\ offered' = offered
       ELSE /\ offered' = [key \in MetaKeys |-> GetDef(key, Fallback(key))]
            /\ metaPc' = "done"
    /\ UNCHANGED <<metaAttempts, metaLast, defaults, pipeVars, sanVars, ioVars, kbVars>>

NextMeta ==
    \/ \E r \in MetaResponses : ExtractMetadata(r)
    \/ RunWizard

SpecMeta == InitMeta /\ [][NextMeta]_vars

----------------------------------------------------------------------------
(* A file written as text and read back with read_file_content.           *)

\* the files the path may hold before anything is written
InitialFiles ==
    {None} \cup {[bytes |-> b] : b \in {<<>>, <<"a">>, <<InvalidByte>>, <<"a", "CR">>}}

InitIo ==
    /\ ioPath \in Paths
    /\ linesep \in {<<"LF">>, <<"CR", "LF">>}
    /\ disk \in InitialFiles
    /\ ioWritten = None
    /\ ioResult = None
    /\ PipeIdle
    /\ SanIdle
    /\ MetaIdle
    /\ KbIdle

\* Path.write_text(S, encoding="utf-8")
WriteFile(S) ==
    /\ ioWritten = None
    /\ ioResult = None
    /\ disk' = [bytes |-> WriteText(S, linesep)]
    /\ ioWritten' = [text |-> S]
    /\ UNCHANGED <<ioPath, linesep, ioResult, pipeVars, sanVars, metaVars, kbVars>>

CallReadFileContent ==
    /\ ioResult = None
    /\ ioResult' = ReadFileContent(ioPath, disk)
    /\ UNCHANGED <<ioPath, linesep, disk, ioWritten, pipeVars, sanVars, metaVars, kbVars>>

NextIo ==
    \/ \E S \in IoTexts(MaxFileLen) : WriteFile(S)
    \/ CallReadFileContent

SpecIo == InitIo /\ [][NextIo]_vars

----------------------------------------------------------------------------
(* Constructing a KnowledgeBase (rag.py, lines 11-31) and retrieving from  *)
(* it (lines 33-60).                                                       *)

InitKb ==
    /\ kbDirExists \in BOOLEAN
    /\ kbListing \in Listings(MaxFiles)
    /\ ~kbDirExists => kbListing = <<>>
    /\ examples = <<>>
    /\ kbPc = "new"
    /\ kbRetrieved = None
    /\ PipeIdle
    /\ SanIdle
    /\ MetaIdle
    /\ IoIdle

ExamplesDirAssumed == TRUE

\* os.path.exists(self.examples_dir)
ExamplesDirFound == kbDirExists

\* KnowledgeBase.__init__: self.examples = [], then load_examples()
Construct ==
    /\ kbPc = "new"
    /\ IF ~ExamplesDirFound
       THEN examples' = <<>> /\ kbPc' = "ready"
       ELSE IF ~kbDirExists
       THEN examples' = <<>> /\ kbPc' = "raised"
       ELSE /\ examples' = LoadExamples(kbListing).examples
            /\ kbPc' = IF LoadExamples(kbListing).raised = "none"
                       THEN "ready" ELSE "raised"
    /\ UNCHANGED <<kbDirExists, kbListing, kbRetrieved, pipeVars, sanVars, metaVars,
                   ioVars>>

\* the section titles asked for
QueryTitles == {<<"a">>, <<"LF">>}

CallGetRelevantExamples(section_title) ==
    /\ kbPc = "ready"
    /\ kbRetrieved = None
    /\ kbRetrieved' = [op |-> "get_relevant_examples", title |-> section_title,
                       result |-> GetRelevantExamples(section_title)]
    /\ UNCHANGED <<kbDirExists, kbListing, examples, kbPc, pipeVars, sanVars,
                   metaVars, ioVars>>

NextKb ==
    \/ Construct
    \/ \E section_title \in QueryTitles : CallGetRelevantExamples(section_title)

SpecKb == InitKb /\ [][NextKb]_vars

----------------------------------------------------------------------------
(* Retrieval from a loaded KnowledgeBase (rag.py, lines 33-60).  The       *)
(* characters of an example the retrieval tells apart: the title "T", line *)
(* feed, an upper-case letter, a lower-case letter.                        *)

ExampleChars == {"T", "LF", "A", "a"}

ExampleTexts(n) == UNION {[1..k -> ExampleChars] : k \in 0..n}

\* an example with a title and a paragraph longer than the window
LongExample == <<"T">> \o [k \in 1..(SegmentCap + 1) |-> "a"]

\* an example whose next section starts beyond the window
LongSection == LongExample \o <<"LF", "LF", "A", "a">>

\* the examples of the directories with two files
PairTexts ==
    {<<"T", "a", "LF", "LF", "A", "a">>, <<"a", "T">>, <<"a", "LF", "A">>,
     LongExample, LongSection}

RetrieveListings ==
    {<<[name |-> <<"ex1", ".txt">>, file |-> [bytes |-> t]]>> :
        t \in ExampleTexts(MaxExampleLen)}
    \cup {<<[name |-> <<"ex1", ".txt">>, file |-> [bytes |-> t1]],
            [name |-> <<"ex2", ".md">>, file |-> [bytes |-> t2]]>> :
            t1 \in PairTexts, t2 \in PairTexts}

RetrieveTitles == {<<"T">>, <<"T", "a">>, <<>>}

InitRetrieve ==
    /\ KbConstructed(RetrieveListings)
    /\ PipeIdle
    /\ SanIdle
    /\ MetaIdle
    /\ IoIdle

NextRetrieve ==
    \E section_title \in RetrieveTitles : CallGetRelevantExamples(section_title)

SpecRetrieve == InitRetrieve /\ [][NextRetrieve]_vars


----------------------------------------------------------------------------
(* Properties *)

HasKeys(i) == "title" \in DOMAIN template[i] /\ "body" \in DOMAIN template[i]

TitleOf(i) == IF "title" \in DOMAIN template[i] THEN template[i].title ELSE "(no title)"

Persisting == pc \in {"log", "html", "pdf", "done"}

InTemplateOrder(sections) ==
    /\ Len(sections) = Len(template)
    /\ \A i \in Indices : sections[i].title = TitleOf(i)

IsSentinel(content) == Len(content) >= 1 /\ content[1] = ErrorMarker

RaisingKinds == {"APIError", "Empty"}

\* C1: whatever the template and the order in which the section tasks
\* complete, the list written to the log and handed to the renderer is in
\* template order: entry i carries the title of template entry i.
C1_OutputInTemplateOrder ==
    /\ Persisting => InTemplateOrder(generated_sections)
    /\ logFile # None => InTemplateOrder(logFile.sections)
    /\ htmlFile # None => InTemplateOrder(htmlFile.sections)

\* the tasks completed in another order than the template's, with different
\* titles, and the run ended
C1_Witness ==
    /\ pc = "done"
    /\ Len(template) >= 2
    /\ yielded[1] > yielded[2]
    /\ TitleOf(yielded[1]) # TitleOf(yielded[2])
    /\ htmlFile # None

\* C2: a section task that raises, for whatever reason, is turned into a
\* placeholder entry for that section and never aborts process_project.
C2_TaskFailureIsolated ==
    \A i \in Indices :
        (outcome[i].kind = "exception" /\ i \in Collected) =>
            /\ pc \notin {"unwind", "raised"}
            /\ \E k \in 1..Len(results) :
                   results[k][1] = i /\ results[k][2].content = GenerationError

\* C3: generate_section never raises and returns the prompt it built with a
\* content; when the last allowed attempt of the LLM call fails too, the
\* content is the sentinel carrying the marker and the text of the exception;
\* a section whose LLM answer was well-formed gets no sentinel.
C3_GenerateSectionNeverRaises ==
    \A i \in Indices :
        /\ outcome[i].kind = "exception" => genret[i] = None /\ ~HasKeys(i)
        /\ (fut[i] = "finished" /\ HasKeys(i)) => genret[i] # None
        /\ genret[i] # None =>
              /\ genret[i].prompt = PromptOf(i)
              /\ outcome[i] = [kind |-> "result",
                               data |-> [title |-> template[i].title,
                                         content |-> genret[i].content]]
              /\ lastResponse[i] \in RaisingKinds =>
                    /\ IsSentinel(genret[i].content)
                    /\ genret[i].content =
                          <<ErrorMarker, " Generation failed after retries: ">>
                          \o ExcText(<<"RetryError",
                                       IF lastResponse[i] = "Empty"
                                       THEN "ValueError" ELSE "APIError">>)
                          \o <<"]]">>
              /\ lastResponse[i] = "Content" => ~IsSentinel(genret[i].content)

\* one section ended with the retry sentinel while another one ended with
\* generated content
C3_Witness ==
    \E i, j \in Indices :
        /\ genret[i] # None /\ lastResponse[i] = "Empty"
        /\ genret[j] # None /\ lastResponse[j] = "Content"
        /\ genret[j].content = <<"O", "k">>

\* a step of section i's retry loop: one invocation of the LLM
Invokes(i) ==
    /\ fut[i] = "running"
    /\ attempts'[i] # attempts[i] \/ fut'[i] # fut[i]

\* C4: one call of _call_gemini invokes the LLM at most 5 times: a call that
\* is still running has at most 4 failed invocations behind it, another
\* invocation is pending only when the latest one raised, an invocation that
\* returns text ends the call, and the 5th failure ends it with RetryError.
C4_AtMostFiveAttempts ==
    /\ [](\A i \in Indices : /\ attempts[i] <= StopAfterAttempt - 1
                             /\ Len(sleeps[i]) = attempts[i]
                             /\ fut[i] # "running" => attempts[i] = 0)
    /\ [][\A i \in Indices : Invokes(i) =>
            /\ lastResponse'[i] \notin RaisingKinds =>
                  /\ fut'[i] = "finished"
                  /\ genret'[i].content # Sentinel(<<"RetryError", "APIError">>)
                  /\ genret'[i].content # Sentinel(<<"RetryError", "ValueError">>)
            /\ (lastResponse'[i] \in RaisingKinds
                    /\ attempts[i] < StopAfterAttempt - 1) =>
                  /\ fut'[i] = "running"
                  /\ attempts'[i] = attempts[i] + 1
            /\ (lastResponse'[i] \in RaisingKinds
                    /\ attempts[i] = StopAfterAttempt - 1) =>
                  /\ fut'[i] = "finished"
                  /\ genret'[i].content \in
                        {Sentinel(<<"RetryError", "APIError">>),
                         Sentinel(<<"RetryError", "ValueError">>)}]_vars

\* a call gave up after its 5th failed invocation
C4_Witness ==
    \E i \in Indices :
        /\ genret[i] # None
        /\ lastResponse[i] = "APIError"
        /\ genret[i].content = Sentinel(<<"RetryError", "APIError">>)

\* C5: a transport error, an empty response and a malformed-JSON response
\* all lead to another attempt: a section degrades to the sentinel for one
\* of them only on the last allowed attempt.
C5_AllThreeRetried ==
    [][\A i \in Indices :
          (Invokes(i) /\ fut'[i] = "finished"
              /\ lastResponse'[i] \in {"APIError", "Empty", "Malformed"}
              /\ IsSentinel(genret'[i].content)) =>
          attempts[i] = StopAfterAttempt - 1]_vars


\* C6: the waits between the attempts of one call start at 4, stay between
\* 4 and 60 and never decrease from one retry to the next.
C6_BackoffWaits ==
    \A i \in Indices :
        /\ Len(sleeps[i]) >= 1 => sleeps[i][1] = 4
        /\ \A k \in 1..Len(sleeps[i]) : sleeps[i][k] >= 4 /\ sleeps[i][k] <= 60
        /\ \A k \in 1..(Len(sleeps[i]) - 1) : sleeps[i][k] <= sleeps[i][k + 1]

\* a call slept four times, the last wait longer than the first
C6_Witness ==
    \E i \in Indices :
        /\ Len(sleeps[i]) = StopAfterAttempt - 1
        /\ sleeps[i][Len(sleeps[i])] > sleeps[i][1]

\* C7: one task per template section, and at most 5 section tasks executing
\* at once however many sections the template has.
C7_PoolWidth ==
    /\ Cardinality(Running) <= 5
    /\ pc \notin {"start", "submit", "raised"} =>
          \A i \in Indices : fut[i] # "unsubmitted"
    /\ progress = Cardinality({i \in Indices : outcome[i].kind = "result"})
    /\ Len(results) <= Len(template)

\* five tasks run while a sixth, submitted, waits for a worker
C7_Witness ==
    /\ Cardinality(Running) = MaxWorkers
    /\ \E i \in Indices : fut[i] = "queued"
    /\ Len(template) > MaxWorkers

WorkerVars == <<fut, attempts, sleeps, lastResponse, genret, outcome, progress>>

ResultVars == <<results, generated_sections, logFile, htmlFile, pdfFile>>

\* C8: sorting, the log write and the rendering happen only when every
\* submitted task has completed or failed and has been collected; the result
\* list changes only in steps of the orchestrating thread, never in a step
\* of a worker.
C8_ReassemblyAfterAllTasks ==
    /\ [](pc \in {"sort", "log", "html", "pdf", "done"} =>
            /\ AllTasksDone
            /\ Collected = Indices
            /\ Len(results) = Len(template))
    /\ [][ResultVars' # ResultVars =>
            /\ pc \in {"collect", "sort", "log", "html", "pdf"}
            /\ pc # "collect" => AllTasksDone
            /\ \A i \in Indices : fut'[i] = fut[i] \/ fut[i] = "unsubmitted"
            /\ UNCHANGED <<attempts, sleeps, lastResponse, genret, outcome, progress>>]_vars
    /\ [][(\E i \in Indices : fut[i] \in {"queued", "running"} /\ WorkerVars' # WorkerVars)
            => UNCHANGED ResultVars]_vars

\* the results were collected out of template order and have been sorted
C8_Witness ==
    /\ pc = "log"
    /\ Len(results) >= 2
    /\ yielded[1] > yielded[2]
    /\ results[1][1] < results[2][1]

\* C9: with the summary or the template structure missing, process_project
\* raises the not-found error before anything else happens: no task is
\* submitted, no LLM call is made, no directory or artifact is created.
C9_AbortBeforeGeneration ==
    (~summaryFound \/ templateState = "missing") =>
        /\ pc \in {"start", "raised"}
        /\ pc = "raised" => error = "FileNotFoundError"
        /\ \A i \in Indices :
              fut[i] = "unsubmitted" /\ attempts[i] = 0 /\ lastResponse[i] = "none"
        /\ ~outputDir
        /\ written = <<>>
        /\ logFile = None /\ htmlFile = None /\ pdfFile = None
        /\ returned = "none"

\* the summary is missing for a template that lists sections, and
\* process_project has raised
C9_Witness ==
    /\ ~summaryFound
    /\ Len(template) >= 1
    /\ pc = "raised"
    /\ error = "FileNotFoundError"

\* C10: the log is written first, then the HTML, then the PDF from that
\* HTML, and the PDF path is returned; log and HTML hold the same sections
\* in the same order.
C10_PersistenceOrder ==
    /\ written \in {<<>>, <<"log">>, <<"log", "html">>, <<"log", "html", "pdf">>}
    /\ pc = "html" => written = <<"log">>
    /\ pc = "pdf" => written = <<"log", "html">>
    /\ logFile # None => logFile.sections = generated_sections
    /\ htmlFile # None => logFile # None /\ htmlFile.sections = logFile.sections
    /\ pdfFile # None => htmlFile # None /\ pdfFile.source = htmlFile
    /\ pc = "done" => returned = "pdf_path" /\ logFile # None /\ htmlFile # None
    /\ returned # "none" => pc = "done"

\* a run ended with all three artifacts, for two different sections
C10_Witness ==
    /\ pc = "done"
    /\ pdfFile # None
    /\ Len(logFile.sections) >= 2
    /\ logFile.sections[1] # logFile.sections[2]


\* C11: a failing PDF conversion is logged, not raised: the step that
\* converts always ends process_project normally with the PDF path, the log
\* and the HTML written before stay as they are, and no PDF exists after a
\* failed conversion.
C11_PdfFailureNotRaised ==
    /\ [][pc = "pdf" =>
            /\ pc' = "done"
            /\ error' = "none"
            /\ returned' = "pdf_path"
            /\ logFile # None /\ logFile' = logFile
            /\ htmlFile # None /\ htmlFile' = htmlFile
            /\ pdfFile' \in {None, [kind |-> "pdf", source |-> htmlFile]}
            /\ pdfFile' = None => written' = <<"log", "html">>]_vars
    /\ [](pc = "done" => error = "none" /\ logFile # None /\ htmlFile # None)

\* the conversion failed in a run that generated a section
C11_Witness ==
    /\ pc = "done"
    /\ pdfFile = None
    /\ written = <<"log", "html">>
    /\ Len(htmlFile.sections) >= 1
    /\ returned = "pdf_path"

NoFence(text) == \A p \in 1..Len(text) : ~StartsAt(text, p, Fence)

\* no "<", one or more characters other than ">", ">"
NoTag(text) ==
    \A p \in 1..Len(text) : \A q \in (p + 2)..Len(text) :
        ~(/\ text[p] = "<"
          /\ text[q] = ">"
          /\ \A k \in (p + 1)..(q - 1) : text[k] # ">")

NoOuterWhitespace(text) ==
    text # <<>> => text[1] \notin Whitespace /\ text[Len(text)] \notin Whitespace

CleanText(text) == NoFence(text) /\ NoTag(text) /\ NoOuterWhitespace(text)

\* the LLM is mocked to answer with a clean section_content
MockedClean ==
    \A r \in llmResponses :
        Cardinality(llmResponses) = 1 /\ r.kind = "Content" /\ CleanText(r.raw)

\* C12: when the LLM answers with an object whose section_content has no
\* fence, no tag and no outer whitespace, generate_section returns exactly
\* that string, after a single invocation of the LLM.
C12_CleanContentReturnedAsIs ==
    /\ [](MockedClean =>
            \A i \in Indices : \A r \in llmResponses :
                /\ genret[i] # None => genret[i].content = r.raw
                /\ attempts[i] = 0)
    /\ [][MockedClean =>
            \A i \in Indices : Invokes(i) =>
                /\ attempts[i] = 0
                /\ fut'[i] = "finished"
                /\ genret'[i] # None]_vars

\* a clean answer that holds a bracket and an inner blank came back as it was
C12_Witness ==
    /\ MockedClean
    /\ \E i \in Indices : \E r \in llmResponses :
          /\ genret[i] # None
          /\ genret[i].content = r.raw
          /\ r.raw = <<"<", " ", "a">>


\* no "<" followed, one or more characters later, by ">"
NoBracketed(text) ==
    \A p \in 1..Len(text) : \A q \in (p + 2)..Len(text) :
        ~(text[p] = "<" /\ text[q] = ">")

\* C13: for every input text the result of _sanitize_content holds no
\* triple-backquote fence and no substring "<...>" with a character between
\* the brackets, and neither starts nor ends with whitespace.
C13_SanitizedIsClean ==
    sanResult # None =>
        /\ NoFence(sanResult.text)
        /\ NoBracketed(sanResult.text)
        /\ NoOuterWhitespace(sanResult.text)


\* C14: extract_metadata never raises; when the LLM call fails after its
\* retries or the response is not valid JSON it returns an empty mapping;
\* a caller given an empty or partial mapping uses its own default for
\* every missing key.
C14_ExtractMetadataNeverRaises ==
    /\ [][metaPc = "extract" =>
            /\ metaPc' \in {"extract", "wizard"}
            /\ (metaPc' = "wizard" /\ metaLast' \in RaisingKinds) =>
                    metaAttempts' = StopAfterAttempt /\ defaults' = Dict(EmptyItems)
            /\ (metaPc' = "wizard" /\ metaLast' = "Malformed") =>
                    defaults' = Dict(EmptyItems)]_vars
    /\ [](defaults.type = "dict" =>
            /\ metaPc # "raised"
            /\ metaPc = "done" =>
                  \A key \in MetaKeys :
                      offered[key] = IF key \in DOMAIN defaults.items
                                     THEN defaults.items[key]
                                     ELSE Fallback(key))

\* the LLM failed five times and the wizard offered its own defaults
C14_Witness ==
    /\ metaPc = "done"
    /\ metaLast \in RaisingKinds
    /\ metaAttempts = StopAfterAttempt
    /\ defaults = Dict(EmptyItems)
    /\ \A key \in MetaKeys : offered[key] = Fallback(key)


\* the path names a plain-text file
TextPath(path) == EndsWith(path, ".txt") \/ EndsWith(path, ".md")

\* C15: read_file_content never raises: for every path it returns the
\* file's text or the empty string.
C15_ReadNeverRaises ==
    ioResult # None =>
        /\ ioResult.kind = "return"
        /\ \/ ioResult.text = <<>>
           \/ disk # None /\ ioResult.text = UniversalNewlines(disk.bytes)

\* C16 as stated: for every string S, writing S to a .txt or .md file and
\* reading the file with read_file_content returns exactly S.
C16_RoundTrip ==
    (ioWritten # None /\ ioResult # None /\ TextPath(ioPath)) =>
        ioResult = Returns(ioWritten.text)

HasCarriageReturn(text) == \E p \in 1..Len(text) : text[p] = "CR"

\* C16, amended: for every string S without a carriage return, writing S
\* as UTF-8 text to a .txt or .md file and reading the file with
\* read_file_content returns exactly S.
C16_RoundTripWithoutCR ==
    (/\ ioWritten # None
     /\ ioResult # None
     /\ TextPath(ioPath)
     /\ ~HasCarriageReturn(ioWritten.text)) =>
        ioResult = Returns(ioWritten.text)

\* two lines written where the line separator is "\r\n" came back as written
C16_Witness ==
    /\ ioWritten # None
    /\ ioWritten.text = <<"a", "LF", "a">>
    /\ linesep = <<"CR", "LF">>
    /\ disk = [bytes |-> <<"a", "CR", "LF", "a">>]
    /\ TextPath(ioPath)
    /\ ioResult = Returns(<<"a", "LF", "a">>)


\* the files of the listing whose name does not hold "Template"
NotTemplate ==
    {k \in 1..Len(kbListing) :
        \A p \in 1..Len(kbListing[k].name) : kbListing[k].name[p] # "Template"}

\* what read_file_content returns for the k-th file of the listing
TextOf(k) == ReadFileContent(kbListing[k].name, kbListing[k].file).text

Contributing == {k \in NotTemplate : TextOf(k) # <<>>}

Hidden(filename) == filename # <<>> /\ filename[1] = "."

\* C18: a hidden file of the examples directory never contributes an entry:
\* the loaded list is what the directory without its hidden files gives.
C18_HiddenFilesSkipped ==
    kbPc = "ready" =>
        examples = LoadExamples(SelectSeq(kbListing, LAMBDA f : ~Hidden(f.name))).examples

\* C19: constructing the KnowledgeBase on a directory that does not exist
\* raises nothing and leaves an empty example list, and get_relevant_examples
\* on it returns the empty string.
C19_MissingDirectoryIsEmpty ==
    ~kbDirExists =>
        /\ kbPc \in {"idle", "new", "ready"}
        /\ examples = <<>>
        /\ kbRetrieved # None => kbRetrieved.result = <<>>

\* the directory is missing, the constructor returned, a retrieval was made
C19_Witness ==
    /\ kbPc = "ready"
    /\ ~kbDirExists
    /\ examples = <<>>
    /\ kbRetrieved # None
    /\ kbRetrieved.op = "get_relevant_examples"
    /\ kbRetrieved.result = <<>>


\* where the k-th loaded text stands in the context, between its labels
PosOf(k) == Find(GetFullContext, StartLabel(k) \o examples[k] \o EndLabel(k))

\* C20: get_full_context returns the loaded texts in load order, each between
\* a start label and an end label naming its source; process_project
\* resolves this context once and hands the same value to every section task.
C20_FullContextResolvedOnce ==
    /\ [](\A k \in 1..Len(examples) :
            /\ PosOf(k) # 0
            /\ k > 1 => PosOf(k - 1) < PosOf(k))
    /\ [](full_context \in {Unresolved, GetFullContext})
    /\ [](pc \notin {"start", "raised"} => full_context = GetFullContext)
    /\ [](\A i \in Indices :
            genret[i] # None => genret[i].prompt.full_context = GetFullContext)
    /\ [][full_context # Unresolved => full_context' = full_context]_vars

\* two examples were loaded and every section of a wide run got the context
C20_Witness ==
    /\ pc = "done"
    /\ Len(examples) = 2
    /\ examples[1] # examples[2]
    /\ Len(template) > MaxWorkers
    /\ \A i \in Indices :
          /\ genret[i] # None
          /\ genret[i].prompt.full_context = GetFullContext
          /\ Find(genret[i].prompt.full_context, examples[2]) # 0


\* the positions of an example where the title stands
TitlePositions(example, title) ==
    {p \in 1..(Len(example) - Len(title) + 1) :
        SubSeq(example, p, p + Len(title) - 1) = title}

SetMin(S) == CHOOSE x \in S : \A y \in S : x <= y

\* the positions from p on where a blank line is followed by a capitalized word
HeadingsFrom(example, p) ==
    {b \in p..(Len(example) - 3) :
        /\ example[b] = "LF" /\ example[b + 1] = "LF"
        /\ example[b + 2] = "A" /\ example[b + 3] = "a"}

\* from the first occurrence of the title up to the next heading after it,
\* or 2000 characters from the match when no heading follows
ExpectedSegment(example, title) ==
    LET p == SetMin(TitlePositions(example, title))
        H == HeadingsFrom(example, p + Len(title))
    IN  IF H # {} THEN SubSeq(example, p, SetMin(H) - 1)
        ELSE IF Len(example) - p + 1 > 2000 THEN SubSeq(example, p, p + 1999)
        ELSE SubSeq(example, p, Len(example))

\* the segments of the examples k.. that hold the title, each after a separator
RECURSIVE ExpectedRest(_, _, _)
ExpectedRest(k, title, sofar) ==
    IF k > Len(examples) THEN sofar
    ELSE IF TitlePositions(examples[k], title) = {}
    THEN ExpectedRest(k + 1, title, sofar)
    ELSE ExpectedRest(k + 1, title,
                      sofar \o (IF sofar = <<>> /\ \A j \in 1..(k - 1) :
                                     TitlePositions(examples[j], title) = {}
                                THEN <<>>
                                ELSE <<"LF", "--- EXAMPLE ---", "LF">>)
                            \o ExpectedSegment(examples[k], title))

\* C21: get_relevant_examples takes, from each example that holds the title,
\* the text from the first occurrence of the title up to the next blank line
\* followed by a capitalized word, or at most 2000 characters from the match
\* when there is none; the segments are joined in example order with the
\* separator, and examples without the title give nothing.
C21_RelevantSegments ==
    kbRetrieved # None =>
        kbRetrieved.result = ExpectedRest(1, kbRetrieved.title, <<>>)

\* the first example was cut at its next section, the second at the window
C21_Witness ==
    /\ kbRetrieved # None
    /\ kbRetrieved.title = <<"T">>
    /\ examples = <<<<"T", "a", "LF", "LF", "A", "a">>, LongExample>>
    /\ Len(kbRetrieved.result) = 2 + 3 + SegmentCap
    /\ SubSeq(kbRetrieved.result, 1, 6) = <<"T", "a", "LF", "--- EXAMPLE ---", "LF", "T">>


\* the content section i ends with: what its task generated, or the
\* placeholder of the as_completed loop when its task raised
OwnContent(i) ==
    IF outcome[i].kind = "result" THEN genret[i].content ELSE <<"[[GENERATION ERROR]]">>

\* C22: when process_project reaches persistence the result list has exactly
\* one entry per template index, whichever tasks succeeded or raised, and
\* entry i carries the content generated for section i or that section's
\* own placeholder.
C22_OneEntryPerIndex ==
    (pc = "sort" \/ Persisting) =>
        /\ Len(results) = Len(template)
        /\ \A i \in Indices :
              /\ Cardinality({k \in 1..Len(results) : results[k][1] = i}) = 1
              /\ \A k \in 1..Len(results) :
                    results[k][1] = i => results[k][2].content = OwnContent(i)
              /\ Persisting =>
                    /\ results[i][1] = i
                    /\ generated_sections[i].content = OwnContent(i)

\* two sections ended with different contents, one of them by a task that
\* raised, were collected in reverse order, and the run was persisted
C22_Witness ==
    /\ pc = "done"
    /\ Len(template) = 2
    /\ yielded = <<2, 1>>
    /\ outcome[1].kind = "exception"
    /\ outcome[2].kind = "result"
    /\ generated_sections[1].content = <<"[[GENERATION ERROR]]">>
    /\ generated_sections[2].content = genret[2].content
    /\ genret[2].content = Plain


\* C24: when the LLM returns a JSON object without section_content,
\* generate_section makes no further attempt and returns the empty string,
\* not a sentinel; the section reaches the written document with empty
\* content and no failure marker.
C24_MissingFieldGivesEmptyContent ==
    /\ [][\A i \in Indices :
            (Invokes(i) /\ lastResponse'[i] = "NoField") =>
                /\ fut'[i] = "finished"
                /\ genret'[i] # None
                /\ genret'[i].content = <<>>
                /\ outcome'[i].kind = "result"
                /\ outcome'[i].data.content = <<>>]_vars
    /\ [](\A i \in Indices :
            lastResponse[i] = "NoField" =>
                /\ logFile # None => logFile.sections[i].content = <<>>
                /\ htmlFile # None => htmlFile.sections[i].content = <<>>)

\* an answer without the field ended a section's call, and the section
\* stands in the written document with empty content
C24_Witness ==
    /\ pc = "done"
    /\ \E i \in Indices :
          /\ lastResponse[i] = "NoField"
          /\ genret[i].content = <<>>
          /\ ~IsSentinel(htmlFile.sections[i].content)
          /\ htmlFile.sections[i].content = <<>>
          /\ logFile.sections[i].content = <<>>


\* the summary and the template resolve
InputsResolve == summaryFound /\ templateState = "list"

\* C23: when the inputs resolve and every LLM invocation returns or raises,
\* every section task eventually completes, the orchestrating thread
\* eventually leaves the worker pool, and the artifact path is eventually
\* returned.
C23_Terminates ==
    InputsResolve =>
        /\ <>(\A i \in Indices : fut[i] = "finished")
        /\ <>(pc \notin {"start", "submit", "collect", "unwind"})
        /\ <>(pc = "done" /\ returned = "pdf_path")


====
